---- MODULE Spec2Model ----
(***************************************************************************)
(* Model of src/src/wordle_game/game_objects.rs: the Game session          *)
(* (Game::new, Game::run, Game::get_diff, Board) and the interactive       *)
(* guess source (HumanPlayer).                                             *)
(*                                                                         *)
(* A Rust String is modelled as a sequence of one-character strings.  The  *)
(* alphabet is ASCII, so String::len (a byte count) is the number of       *)
(* characters.  Source indices are 0-based, sequences here are 1-based.    *)
(***************************************************************************)
EXTENDS Integers, Sequences, FiniteSets

(* ---------------------------- bounds ---------------------------------- *)
MaxWordLen == 2        \* longest target word of a session
MaxAttempts == 2       \* largest number_of_attempts of a session
MaxDiffLen == 3        \* longest word / guess handed to get_diff on its own
MaxLineLen == 4        \* longest input line typed at the HumanPlayer prompt
MaxWordLength == 4     \* largest HumanPlayer.word_length
MaxReads == 3          \* read_line calls followed in one get_player_word
MaxRuns == 2           \* calls of run on one Game

(* ------------------------- program constants -------------------------- *)
U8 == 256
DefaultAttempts == 5
DefaultWordLength == 4
DefaultWord == <<"t", "e", "s", "t">>

(* --------------------------- characters ------------------------------- *)
LowerChars == {"a", "b"}
UpperChars == {"A"}
Chars == LowerChars \cup UpperChars
Whitespace == {" ", "\n"}
LineChars == {"a", "A", " "}

RECURSIVE SeqsOfLen(_, _)
SeqsOfLen(S, n) ==
    IF n = 0 THEN {<<>>}
    ELSE {Append(s, c) : s \in SeqsOfLen(S, n - 1), c \in S}

SeqsUpTo(S, n) == UNION {SeqsOfLen(S, k) : k \in 0..n}

(* char::to_lowercase on the modelled alphabet *)
lower_char(c) ==
    CASE c = "A" -> "a"
      [] c = "B" -> "b"
      [] c = "T" -> "t"
      [] c = "E" -> "e"
      [] c = "S" -> "s"
      [] OTHER -> c

(* String::to_lowercase *)
to_lowercase(s) == [i \in 1..Len(s) |-> lower_char(s[i])]

(* str::contains(char) *)
contains(s, c) == \E j \in 1..Len(s) : s[j] = c

(* ----------------------------- Word ----------------------------------- *)
Empty(n) == [kind |-> "Empty", width |-> n]
Full(slots) == [kind |-> "Full", slots |-> slots]
Panic == [kind |-> "Panic"]

Match(c) == [state |-> "Match", letter |-> c]
PartialMatch(c) == [state |-> "PartialMatch", letter |-> c]
NonMatch(c) == [state |-> "NonMatch", letter |-> c]

(* slot_for with the position test dropped: any contained letter matches *)
slot_for_no_position(word, i, player_letter) ==
    IF contains(word, player_letter)
    THEN Match(player_letter)
    ELSE NonMatch(player_letter)

(* slot_for with the two outer branches exchanged *)
slot_for_swapped(word, i, player_letter) ==
    IF ~contains(word, player_letter)
    THEN LET actual_letter == word[i]
         IN  IF player_letter = actual_letter
             THEN Match(player_letter)
             ELSE PartialMatch(player_letter)
    ELSE NonMatch(player_letter)

(* slot_for tagging the target's letter instead of the guessed one *)
slot_for_target_letter(word, i, player_letter) ==
    IF contains(word, player_letter)
    THEN LET actual_letter == word[i]
         IN  IF player_letter = actual_letter
             THEN Match(actual_letter)
             ELSE PartialMatch(actual_letter)
    ELSE NonMatch(word[i])

(* ------------------------- Game::get_diff ----------------------------- *)
(* The body of the for loop for one index i (1-based), both letters       *)
(* already unwrapped.                                                      *)
slot_for(word, i, player_letter) ==
    IF contains(word, player_letter)
    THEN LET actual_letter == word[i]
         IN  IF player_letter = actual_letter
             THEN Match(player_letter)
             ELSE PartialMatch(player_letter)
    ELSE NonMatch(player_letter)

(* for i in 0..self.word.len(): player_word.chars().nth(i).unwrap()       *)
(* panics as soon as the guess has no character at index i.               *)
RECURSIVE diff_loop(_, _, _, _)
diff_loop(word, player_word, i, slots) ==
    IF i > Len(word) THEN Full(slots)
    ELSE IF i > Len(player_word) THEN Panic
    ELSE diff_loop(word, player_word, i + 1,
                   Append(slots, slot_for(word, i, player_word[i])))

(* get_diff with the usual duplicate-letter accounting: a misplaced letter *)
(* is PartialMatch only while the target has an unmatched copy left       *)
get_diff_frequency_aware(word, player_word) ==
    IF Len(player_word) < Len(word) THEN Panic
    ELSE Full([i \in 1..Len(word) |->
           LET c == player_word[i]
               spare == Cardinality({j \in 1..Len(word) :
                            word[j] = c /\ player_word[j] # c})
               used == Cardinality({j \in 1..(i - 1) :
                            player_word[j] = c /\ word[j] # c})
           IN  IF c = word[i] THEN Match(c)
               ELSE IF used < spare THEN PartialMatch(c)
               ELSE NonMatch(c)])

get_diff(word, player_word) == diff_loop(word, player_word, 1, <<>>)

(* ------------------------------ Board --------------------------------- *)
BoardNew(width, length) == [i \in 1..length |-> Empty(width)]

(* self.words[index] = word, index 0-based; an index out of bounds panics *)
(* and leaves the vector as it was                                         *)
add_word(words, w, index) ==
    IF index + 1 \in DOMAIN words
    THEN [panic |-> FALSE, words |-> [words EXCEPT ![index + 1] = w]]
    ELSE [panic |-> TRUE, words |-> words]

(* current_word_index counting from the attempts left instead *)
current_word_index_from_left(n, left) == (left - 1) % U8

(* (self.number_of_attempts - self.attempts_left).into(), u8 arithmetic *)
current_word_index(n, left) == (n - left) % U8

(* ---------------------------- HumanPlayer ----------------------------- *)
(* validate_input with <= for == *)
validate_input_at_most(wl, input) == Len(input) <= wl

validate_input(wl, input) == Len(input) = wl

RECURSIVE trim_start(_)
trim_start(s) ==
    IF s # <<>> /\ Head(s) \in Whitespace THEN trim_start(Tail(s)) ELSE s

RECURSIVE trim_end(_)
trim_end(s) ==
    IF s # <<>> /\ s[Len(s)] \in Whitespace
    THEN trim_end(SubSeq(s, 1, Len(s) - 1))
    ELSE s

trim(s) == trim_end(trim_start(s))

(* ----------------------------- state ---------------------------------- *)
VARIABLES
    word,                \* Game.word (lower-cased by Game::new)
    number_of_attempts,  \* Game.number_of_attempts
    attempts_left,       \* Game.attempts_left
    board,               \* Game.board.words
    player_word,         \* local of run's loop body: the guess of the turn
    pc,                  \* position in Game::run
    summary,             \* GameSummary returned by run, or "none"
    exit_by,             \* how the while loop was left: "none", "break", "exhausted"
    requests,            \* number of get_play calls made by run
    renders,             \* number of Board::print calls made by run
    turns,               \* loop bodies run to their end (the break included)
    events,              \* what run has done so far: "render", "get_play", "write"
    runs,                \* calls of run that have returned
    diff_out,            \* result of a stand-alone get_diff call
    diff_again,          \* result of a second get_diff call on the same guess
    word_length,         \* HumanPlayer.word_length
    buffer,              \* local of get_player_word: the line read last
    hp_pc,               \* position in HumanPlayer::get_player_word
    play,                \* value returned by get_player_word, or "none"
    input,               \* argument of the last validate_input call, or "none"
    valid,               \* result of the last validate_input call
    reads,               \* read_line calls made
    rejected,            \* iterations ended by continue after an invalid line
    read_errors          \* iterations ended by continue after a read error

game_vars == <<word, number_of_attempts, attempts_left, board, player_word,
               pc, summary, exit_by, requests, renders, turns, events, runs>>
human_vars == <<word_length, buffer, hp_pc, play, input, valid,
                reads, rejected, read_errors>>
vars == <<word, number_of_attempts, attempts_left, board, player_word,
          pc, summary, exit_by, requests, renders, turns, events, runs,
          diff_out, diff_again,
          word_length, buffer, hp_pc, play, input, valid,
          reads, rejected, read_errors>>

(* the part of the state a specification does not use *)
HumanIdle ==
    /\ word_length = 0 /\ buffer = <<>> /\ hp_pc = "idle"
    /\ play = "none" /\ input = "none" /\ valid = FALSE
    /\ reads = 0 /\ rejected = 0 /\ read_errors = 0

RunIdle ==
    /\ player_word = <<>> /\ summary = "none" /\ exit_by = "none"
    /\ requests = 0 /\ renders = 0 /\ turns = 0
    /\ events = <<>> /\ runs = 0

(* -------------------------- Game::new --------------------------------- *)
(* Game::new starting with one attempt too many *)
GameNewOffByOne(w, n) ==
    /\ board = BoardNew(Len(w) % U8, n)
    /\ word = to_lowercase(w)
    /\ number_of_attempts = n
    /\ attempts_left = (n + 1) % U8

GameNew(w, n) ==
    /\ board = BoardNew(Len(w) % U8, n)
    /\ word = to_lowercase(w)
    /\ number_of_attempts = n
    /\ attempts_left = n

Words == SeqsUpTo(Chars, MaxWordLen)

(* what a Player may return for a target: any string one shorter, as long *)
(* as, or one longer than the target                                      *)
Guesses(w) ==
    UNION {SeqsOfLen(Chars, k) :
             k \in {m \in {Len(w) - 1, Len(w), Len(w) + 1} : m >= 0}}

Init ==
    /\ \E w \in Words, n \in 0..MaxAttempts : GameNew(w, n)
    /\ RunIdle
    /\ pc = "new"
    /\ diff_out = "none" /\ diff_again = "none"
    /\ HumanIdle

(* --------------------------- Game::run -------------------------------- *)
(* run without the print before the loop *)
RunStartNoPrint ==
    /\ pc = "new"
    /\ pc' = "while"
    /\ UNCHANGED <<word, number_of_attempts, attempts_left, board, player_word,
                   summary, exit_by, requests, renders, turns, events, runs,
                   diff_out, diff_again>>
    /\ UNCHANGED human_vars

(* line 48: self.board.print() *)
RunStart ==
    /\ pc = "new"
    /\ renders' = renders + 1
    /\ events' = Append(events, "render")
    /\ pc' = "while"
    /\ UNCHANGED <<word, number_of_attempts, attempts_left, board, player_word,
                   summary, exit_by, requests, turns, runs, diff_out,
                   diff_again>>
    /\ UNCHANGED human_vars

(* the loop test with >= for > *)
WhileTestOffByOne ==
    /\ pc = "while"
    /\ IF attempts_left >= 0
       THEN pc' = "get_play" /\ UNCHANGED exit_by
       ELSE pc' = "return" /\ exit_by' = "exhausted"
    /\ UNCHANGED <<word, number_of_attempts, attempts_left, board, player_word,
                   summary, requests, renders, turns, events, runs, diff_out,
                   diff_again>>
    /\ UNCHANGED human_vars

(* line 49: while self.attempts_left > 0 *)
WhileTest ==
    /\ pc = "while"
    /\ IF attempts_left > 0
       THEN pc' = "get_play" /\ UNCHANGED exit_by
       ELSE pc' = "return" /\ exit_by' = "exhausted"
    /\ UNCHANGED <<word, number_of_attempts, attempts_left, board, player_word,
                   summary, requests, renders, turns, events, runs, diff_out,
                   diff_again>>
    /\ UNCHANGED human_vars

(* line 50: let player_word = self.player.get_play(&self.board) *)
GetPlay ==
    /\ pc = "get_play"
    /\ \E g \in Guesses(word) : player_word' = g
    /\ requests' = requests + 1
    /\ events' = Append(events, "get_play")
    /\ pc' = "turn"
    /\ UNCHANGED <<word, number_of_attempts, attempts_left, board,
                   summary, exit_by, renders, turns, runs, diff_out,
                   diff_again>>
    /\ UNCHANGED human_vars

(* lines 54-57: if player_word == self.word { break; }                    *)
(*              self.attempts_left -= 1;                                   *)
(* with the decrement placed before the comparison                        *)
check_win_decrement_first(pw, w, left) ==
    IF pw = w
    THEN [break |-> TRUE, attempts_left |-> (left - 1) % U8]
    ELSE [break |-> FALSE, attempts_left |-> (left - 1) % U8]

(* lines 54-57: if player_word == self.word { break; }                    *)
(*              self.attempts_left -= 1;                                   *)
check_win(pw, w, left) ==
    IF pw = w
    THEN [break |-> TRUE, attempts_left |-> left]
    ELSE [break |-> FALSE, attempts_left |-> (left - 1) % U8]

(* the loop body with the comparison moved before the evaluation: a      *)
(* winning guess breaks out with its row neither written nor printed      *)
PlayTurnCheckFirst ==
    /\ pc = "turn"
    /\ LET diff == get_diff(word, player_word)
           added == add_word(board, diff,
                      current_word_index(number_of_attempts, attempts_left))
       IN  IF player_word = word
           THEN /\ pc' = "return"
                /\ exit_by' = "break"
                /\ turns' = turns + 1
                /\ player_word' = <<>>
                /\ UNCHANGED <<board, renders, attempts_left, events>>
           ELSE IF diff.kind = "Panic" \/ added.panic
           THEN /\ pc' = "panic"
                /\ UNCHANGED <<board, renders, attempts_left, exit_by, turns,
                               player_word, events>>
           ELSE /\ board' = added.words
                /\ renders' = renders + 1
                /\ events' = events \o <<"write", "render">>
                /\ attempts_left' = (attempts_left - 1) % U8
                /\ pc' = "while"
                /\ UNCHANGED exit_by
                /\ turns' = turns + 1
                /\ player_word' = <<>>
    /\ UNCHANGED <<word, number_of_attempts, summary, requests, runs, diff_out,
                   diff_again>>
    /\ UNCHANGED human_vars

(* lines 51-58, the rest of the loop body once get_play has returned:     *)
(*   let diff = self.get_diff(&player_word);                              *)
(*   self.board.add_word(diff, self.current_word_index());                *)
(*   self.board.print();                                                  *)
(*   if player_word == self.word { break; }                               *)
(*   self.attempts_left -= 1;                                             *)
(* A panic in get_diff or add_word ends the run with nothing written.     *)
(* player_word is a local of the loop body and is dropped at its end.     *)
PlayTurn ==
    /\ pc = "turn"
    /\ LET diff == get_diff(word, player_word)
           added == add_word(board, diff,
                      current_word_index(number_of_attempts, attempts_left))
           checked == check_win(player_word, word, attempts_left)
       IN  IF diff.kind = "Panic" \/ added.panic
           THEN /\ pc' = "panic"
                /\ UNCHANGED <<board, renders, attempts_left, exit_by, turns,
                               player_word, events>>
           ELSE /\ board' = added.words
                /\ renders' = renders + 1
                /\ events' = events \o <<"write", "render">>
                /\ attempts_left' = checked.attempts_left
                /\ pc' = IF checked.break THEN "return" ELSE "while"
                /\ exit_by' = IF checked.break THEN "break" ELSE exit_by
                /\ turns' = turns + 1
                /\ player_word' = <<>>
    /\ UNCHANGED <<word, number_of_attempts, summary, requests, runs, diff_out,
                   diff_again>>
    /\ UNCHANGED human_vars

(* lines 59-61: GameSummary { won: self.attempts_left > 0 } *)
Return ==
    /\ pc = "return"
    /\ summary' = [won |-> attempts_left > 0]
    /\ runs' = runs + 1
    /\ pc' = "done"
    /\ UNCHANGED <<word, number_of_attempts, attempts_left, board, player_word,
                   exit_by, requests, renders, turns, events, diff_out,
                   diff_again>>
    /\ UNCHANGED human_vars

Next ==
    \/ RunStart
    \/ WhileTest
    \/ GetPlay
    \/ PlayTurn
    \/ Return

Spec == Init /\ [][Next]_vars

(* run is sequential code and every get_play call is assumed to return:   *)
(* a step that can be taken is eventually taken                           *)
SpecLive == Spec /\ WF_vars(Next)

(* ------------------ Game::run called more than once ------------------ *)
(* line 47: pub fn run(&mut self) is called again on a Game whose run has *)
(* returned; the Game is as that run left it                              *)
RunAgain ==
    /\ pc = "done"
    /\ runs < MaxRuns
    /\ pc' = "new"
    /\ exit_by' = "none"
    /\ UNCHANGED <<word, number_of_attempts, attempts_left, board, player_word,
                   summary, requests, renders, turns, events, runs, diff_out,
                   diff_again>>
    /\ UNCHANGED human_vars

NextRerun ==
    \/ Next
    \/ RunAgain

SpecRerun == Init /\ [][NextRerun]_vars

(* ------------------- Game::new on long target words ------------------- *)
(* Game::new passes word.len() as u8 to Board::new (line 15): targets     *)
(* whose byte length is around 2^8, next to the short ones                *)
LongWords ==
    {[i \in 1..k |-> IF i % 2 = 1 THEN c ELSE d] :
        k \in (U8 - 2)..(U8 + 2), c \in LowerChars, d \in LowerChars}

InitNew ==
    /\ \E w \in Words \cup LongWords, n \in 0..MaxAttempts : GameNew(w, n)
    /\ RunIdle
    /\ pc = "new"
    /\ diff_out = "none" /\ diff_again = "none"
    /\ HumanIdle

(* the first statement of run: the new board is printed *)
NextNew == RunStart

SpecNew == InitNew /\ [][NextNew]_vars

(* ------------------- Game::get_diff on its own ------------------------ *)
DiffWords == SeqsUpTo(Chars, MaxDiffLen)

InitDiff ==
    /\ \E w \in DiffWords, n \in 0..MaxAttempts : GameNew(w, n)
    /\ RunIdle
    /\ pc = "diff_call"
    /\ diff_out = "none" /\ diff_again = "none"
    /\ HumanIdle

(* get_diff taking &mut self and storing its result in the board itself *)
DiffCallWritingBoard ==
    /\ pc = "diff_call"
    /\ \E g \in DiffWords :
         LET diff == get_diff(word, g)
             added == add_word(board, diff,
                        current_word_index(number_of_attempts, attempts_left))
         IN  /\ player_word' = g
             /\ diff_out' = diff
             /\ board' = IF diff.kind = "Full" THEN added.words ELSE board
    /\ pc' = "diff_done"
    /\ UNCHANGED <<word, number_of_attempts, attempts_left,
                   summary, exit_by, requests, renders, turns, events, runs,
                   diff_again>>
    /\ UNCHANGED human_vars

(* self.get_diff(&player_word) for any string *)
DiffCall ==
    /\ pc = "diff_call"
    /\ \E g \in DiffWords :
         /\ player_word' = g
         /\ diff_out' = get_diff(word, g)
    /\ pc' = "diff_done"
    /\ UNCHANGED <<word, number_of_attempts, attempts_left, board,
                   summary, exit_by, requests, renders, turns, events, runs,
                   diff_again>>
    /\ UNCHANGED human_vars

(* self.get_diff(&player_word) once more, on the Game as the first call   *)
(* left it                                                                *)
DiffCallAgain ==
    /\ pc = "diff_done"
    /\ diff_again' = get_diff(word, player_word)
    /\ pc' = "diff_twice"
    /\ UNCHANGED <<word, number_of_attempts, attempts_left, board, player_word,
                   summary, exit_by, requests, renders, turns, events, runs,
                   diff_out>>
    /\ UNCHANGED human_vars

NextDiff ==
    \/ DiffCall
    \/ DiffCallAgain

SpecDiff == InitDiff /\ [][NextDiff]_vars

(* ----------------- HumanPlayer::get_player_word ----------------------- *)
(* Game::default(): Self::new("test".to_owned(), 5, HumanPlayer { word_length: 4 }) *)
GameDefault ==
    /\ GameNew(DefaultWord, DefaultAttempts)
    /\ word_length = DefaultWordLength

(* what stdin().read_line can put in the buffer: a line with its newline, *)
(* or the rest of the input up to end of file                             *)
Lines ==
    {l \o nl : l \in SeqsUpTo(LineChars, MaxLineLen), nl \in {<<>>, <<"\n">>}}

InitHuman ==
    /\ \/ GameDefault
       \/ /\ GameNew(<<"a", "b">>, 1)
          /\ word_length \in 0..MaxWordLength
    /\ RunIdle
    /\ pc = "get_play"
    /\ diff_out = "none" /\ diff_again = "none"
    /\ buffer = <<>> /\ hp_pc = "loop" /\ play = "none"
    /\ input = "none" /\ valid = FALSE
    /\ reads = 0 /\ rejected = 0 /\ read_errors = 0

(* lines 155-159: a fresh buffer, read_line returned Ok(_) *)
ReadLineOk ==
    /\ hp_pc = "loop"
    /\ reads < MaxReads
    /\ \E line \in Lines : buffer' = line
    /\ reads' = reads + 1
    /\ hp_pc' = "read_ok"
    /\ UNCHANGED <<word_length, play, input, valid, rejected, read_errors,
                   diff_out, diff_again>>
    /\ UNCHANGED game_vars

(* lines 155-158, 166-172: read_line returned Err(_): message, continue *)
ReadLineErr ==
    /\ hp_pc = "loop"
    /\ reads < MaxReads
    /\ reads' = reads + 1
    /\ read_errors' = read_errors + 1
    /\ hp_pc' = "loop"
    /\ UNCHANGED <<word_length, buffer, play, input, valid, rejected, diff_out,
                   diff_again>>
    /\ UNCHANGED game_vars

(* line 160: self.validate_input(buffer.trim()) *)
Validate ==
    /\ hp_pc = "read_ok"
    /\ input' = trim(buffer)
    /\ valid' = validate_input(word_length, trim(buffer))
    /\ hp_pc' = "validated"
    /\ UNCHANGED <<word_length, buffer, play, reads, rejected, read_errors,
                   diff_out, diff_again>>
    /\ UNCHANGED game_vars

(* lines 160-163: invalid: message, continue; the buffer is dropped *)
Reject ==
    /\ hp_pc = "validated"
    /\ ~valid
    /\ rejected' = rejected + 1
    /\ buffer' = <<>>
    /\ input' = "none"
    /\ hp_pc' = "loop"
    /\ UNCHANGED <<word_length, play, valid, reads, read_errors, diff_out,
                   diff_again>>
    /\ UNCHANGED game_vars

(* the break returning the buffer as read, untrimmed *)
AcceptUntrimmed ==
    /\ hp_pc = "validated"
    /\ valid
    /\ play' = buffer
    /\ hp_pc' = "returned"
    /\ UNCHANGED <<word_length, buffer, input, valid, reads, rejected,
                   read_errors, diff_out,
                   diff_again>>
    /\ UNCHANGED game_vars

(* line 164: break buffer.trim().to_owned() *)
Accept ==
    /\ hp_pc = "validated"
    /\ valid
    /\ play' = trim(buffer)
    /\ hp_pc' = "returned"
    /\ UNCHANGED <<word_length, buffer, input, valid, reads, rejected,
                   read_errors, diff_out,
                   diff_again>>
    /\ UNCHANGED game_vars

NextHuman ==
    \/ ReadLineOk
    \/ ReadLineErr
    \/ Validate
    \/ Reject
    \/ Accept

SpecHuman == InitHuman /\ [][NextHuman]_vars

(* ============================ properties ============================== *)
Terminated == pc \in {"done", "panic"}

(* C1: the summary has won = TRUE exactly when the loop was left by the   *)
(* break on a guess equal to the target, and won = FALSE exactly when it  *)
(* was left because attempts_left reached 0.                              *)
WonIffExactMatchExit ==
    pc = "done" =>
        /\ summary.won \in BOOLEAN
        /\ exit_by \in {"break", "exhausted"}
        /\ (summary.won = TRUE) <=> (exit_by = "break")
        /\ (summary.won = FALSE) <=> (exit_by = "exhausted")

(* a win on the very last allowed attempt *)
WinOnLastAttempt ==
    /\ pc = "done"
    /\ number_of_attempts >= 2
    /\ turns = number_of_attempts
    /\ exit_by = "break"
    /\ summary.won = TRUE

(* what is left of a run: four steps for every attempt left, plus the     *)
(* steps from the current position to the next loop test or to the end    *)
PcRank ==
    CASE pc = "new" -> 5
      [] pc = "while" -> 4
      [] pc = "get_play" -> 3
      [] pc = "turn" -> 2
      [] pc = "return" -> 1
      [] OTHER -> 0

RunMeasure == 4 * attempts_left + PcRank

RunStepDecreases ==
    /\ RunMeasure' < RunMeasure
    /\ RunMeasure' >= 0

(* C2: run from a fresh Game makes at most number_of_attempts get_play    *)
(* calls and always comes to an end (a returned summary, or a panic):     *)
(* it can stop nowhere else, and every step takes it strictly closer to   *)
(* the end, which is at most 4 * number_of_attempts + 5 steps away.       *)
RunTerminatesWithinAttempts ==
    /\ [](requests <= number_of_attempts)
    /\ [](Terminated \/ ENABLED Next)
    /\ [](RunMeasure \in 0..(4 * number_of_attempts + 5))
    /\ [][RunStepDecreases]_vars

(* every allowed guess was requested and run returned *)
AllAttemptsUsed ==
    /\ pc = "done"
    /\ number_of_attempts >= 2
    /\ requests = number_of_attempts

(* C3: a turn whose guess equals the target when letter case is ignored   *)
(* leaves the loop by the win exit.                                       *)
CaseInsensitiveWin ==
    [][(pc = "turn" /\ pc' # "turn" /\ to_lowercase(player_word) = word)
          => (pc' = "return" /\ exit_by' = "break")]_vars

(* C4: after k completed turns exactly rows 0..k-1 of the board are Full  *)
(* and every later row is Empty, the winning turn included.               *)
BoardRowsFilledInOrder ==
    /\ Len(board) = number_of_attempts
    /\ turns \in 0..number_of_attempts
    /\ \A i \in 1..Len(board) :
         /\ (board[i].kind = "Full") <=> (i <= turns)
         /\ (board[i].kind = "Empty") <=> (i > turns)

(* the board after a win on the first turn of a longer game: the first    *)
(* row Full, the rest Empty                                               *)
BoardAfterWinningTurn ==
    /\ pc = "done"
    /\ exit_by = "break"
    /\ turns = 1
    /\ number_of_attempts >= 2
    /\ board[1].kind = "Full"
    /\ board[2] = Empty(Len(word))

Letters(w) == {w[j] : j \in 1..Len(w)}

(* C7: the slot at position i depends only on the guess letter at i, the  *)
(* target letter at i and the set of letters of the target; a letter that *)
(* occurs once in the target is PartialMatch at every position where it   *)
(* is guessed out of place; target "aab" with guess "aaa" gives           *)
(* [Match(a), Match(a), PartialMatch(a)].                                 *)
DiffNotFrequencyAware ==
    (pc = "diff_done" /\ Len(player_word) = Len(word)) =>
        /\ \A g2 \in SeqsOfLen(Chars, Len(word)), i \in 1..Len(word) :
             g2[i] = player_word[i]
                => get_diff(word, g2).slots[i] = diff_out.slots[i]
        /\ \A w2 \in SeqsOfLen(LowerChars, Len(word)), i \in 1..Len(word) :
             (w2[i] = word[i] /\ Letters(w2) = Letters(word))
                => get_diff(w2, player_word).slots[i] = diff_out.slots[i]
        /\ \A i \in 1..Len(word) :
             (player_word[i] \in Letters(word) /\ player_word[i] # word[i])
                => diff_out.slots[i] = PartialMatch(player_word[i])
        /\ (word = <<"a", "a", "b">> /\ player_word = <<"a", "a", "a">>)
                => diff_out = Full(<<Match("a"), Match("a"), PartialMatch("a")>>)
        /\ (word = <<"b", "a", "b">> /\ player_word = <<"a", "b", "a">>)
                => diff_out = Full(<<PartialMatch("a"), PartialMatch("b"),
                                     PartialMatch("a")>>)

(* target "aab" evaluated against guess "aaa" *)
DiffOfAabAgainstAaa ==
    /\ pc = "diff_done"
    /\ word = <<"a", "a", "b">>
    /\ player_word = <<"a", "a", "a">>
    /\ diff_out.slots[3].state = "PartialMatch"

AttemptsLeftStep ==
    /\ (attempts_left' # attempts_left)
          => (pc = "turn" /\ player_word # word)
    /\ (pc = "turn" /\ pc' = "while")
          => (/\ player_word # word
              /\ attempts_left >= 1
              /\ attempts_left' = attempts_left - 1)
    /\ (pc = "turn" /\ pc' = "return")
          => (player_word = word /\ attempts_left' = attempts_left)

(* C8: attempts_left stays within 0..number_of_attempts, goes down by     *)
(* exactly 1 on each non-winning guess and changes at no other step.      *)
AttemptsLeftWithinBudget ==
    /\ [](attempts_left \in 0..number_of_attempts)
    /\ [][AttemptsLeftStep]_vars

(* the counter at 0 after the last non-winning guess *)
AttemptsExhausted ==
    /\ pc = "done"
    /\ number_of_attempts >= 2
    /\ attempts_left = 0
    /\ exit_by = "exhausted"

(* C9: validate_input accepts an input if and only if its length is       *)
(* word_length: shorter and longer inputs are rejected, and the letter    *)
(* case of the input does not matter.                                     *)
ValidateInputIffLength ==
    hp_pc = "validated" =>
        /\ valid <=> (Len(input) = word_length)
        /\ (Len(input) < word_length) => ~valid
        /\ (Len(input) > word_length) => ~valid
        /\ validate_input(word_length, to_lowercase(input)) = valid

(* a mixed-case input of the default game's length is accepted *)
MixedCaseInputAccepted ==
    /\ hp_pc = "validated"
    /\ word_length = DefaultWordLength
    /\ input = <<"A", "a", "a", "a">>
    /\ valid

Outer(s) == {s[1], s[Len(s)]}

ReturnedPlayIsValid ==
    /\ Len(play) = word_length
    /\ play = input
    /\ \E i \in 1..(Len(buffer) + 1) :
         /\ SubSeq(buffer, i, i + Len(play) - 1) = play
         /\ \A j \in 1..Len(buffer) :
              (j < i \/ j > i + Len(play) - 1) => buffer[j] \in Whitespace
    /\ (play # <<>>) => (Outer(play) \cap Whitespace = {})
    /\ (word = DefaultWord /\ word_length = DefaultWordLength)
          => Len(play) = Len(word)
    /\ rejected + read_errors = reads - 1

RepromptStep ==
    /\ (hp_pc = "validated" /\ hp_pc' # "validated" /\ Len(input) # word_length)
          => (hp_pc' = "loop" /\ play' = "none" /\ rejected' = rejected + 1)
    /\ (read_errors' # read_errors)
          => (hp_pc' = "loop" /\ play' = "none")

(* C10: get_player_word returns only the trimmed line whose length is     *)
(* word_length (the target length in the default game); a wrong-length    *)
(* line and a read error lead back to the prompt and return nothing.      *)
HumanPlayerReturnsOnlyValid ==
    /\ [](/\ hp_pc \in {"loop", "read_ok", "validated", "returned"}
          /\ (hp_pc # "returned") => play = "none"
          /\ (hp_pc = "returned") => ReturnedPlayIsValid)
    /\ [][RepromptStep]_vars

(* the default game's player returns a padded line after one invalid line *)
(* and one read error                                                     *)
ReturnedAfterRepromptsTrimmed ==
    /\ hp_pc = "returned"
    /\ word = DefaultWord
    /\ rejected = 1
    /\ read_errors = 1
    /\ play # buffer
    /\ Len(play) = Len(word)

(* C11: a guess whose length differs from the target's, shorter or        *)
(* longer, ends the turn in a panic: no row is written and no summary     *)
(* follows.                                                               *)
WrongLengthGuessIsFatal ==
    [][(pc = "turn" /\ pc' # "turn" /\ Len(player_word) # Len(word))
          => (pc' = "panic" /\ board' = board /\ attempts_left' = attempts_left)]_vars

WriteStep ==
    (pc = "turn" /\ pc' \in {"while", "return"}) =>
        LET idx == number_of_attempts - attempts_left
        IN  /\ idx \in 0..(number_of_attempts - 1)
            /\ idx = turns
            /\ board[idx + 1].kind = "Empty"
            /\ \A j \in 1..idx : board[j].kind = "Full"
            /\ \A j \in (idx + 2)..Len(board) : board[j].kind = "Empty"
            /\ board'[idx + 1].kind = "Full"
            /\ \A j \in 1..Len(board) : j # idx + 1 => board'[j] = board[j]

RowsKeptStep ==
    /\ Len(board') = Len(board)
    /\ \A j \in 1..Len(board) : board[j].kind = "Full" => board'[j] = board[j]
    /\ (board' # board) => (pc = "turn" /\ pc' \in {"while", "return"})

(* C12: within a run every turn writes row number_of_attempts -           *)
(* attempts_left, a valid index and the lowest Empty row; rows fill in    *)
(* the order 0, 1, 2, ... and a Full row is never written again.          *)
TurnWritesNextEmptyRow ==
    [][WriteStep /\ RowsKeptStep]_vars

(* two turns have written rows 0 and 1 in that order *)
TwoRowsWrittenInOrder ==
    /\ pc = "while"
    /\ turns = 2
    /\ attempts_left = number_of_attempts - 2
    /\ board[1].kind = "Full"
    /\ board[2].kind = "Full"

(* C13: once a run has finished, by a win or by exhausting the attempts,  *)
(* nothing done to the Game, run called again included, requests a guess, *)
(* changes attempts_left or a board row, or reports another won value.    *)
FinishedIsTerminal ==
    [][(runs >= 1)
          => (/\ requests' = requests
              /\ attempts_left' = attempts_left
              /\ board' = board
              /\ summary' = summary)]_vars

WinningTurnStep ==
    (pc = "turn" /\ pc' # "turn" /\ player_word = word) =>
        /\ board'[turns + 1].kind = "Full"
        /\ Len(board'[turns + 1].slots) = Len(word)
        /\ \A i \in 1..Len(word) : board'[turns + 1].slots[i] = Match(word[i])
        /\ events' = events \o <<"write", "render">>
        /\ renders' = renders + 1
        /\ pc' = "return"
        /\ exit_by' = "break"
        /\ attempts_left' = attempts_left
        /\ requests' = requests

AfterBreakStep ==
    (exit_by = "break") =>
        /\ pc' = "done"
        /\ requests' = requests
        /\ attempts_left' = attempts_left
        /\ board' = board
        /\ events' = events

RECURSIVE ExpectedEvents(_)
ExpectedEvents(k) ==
    IF k = 0 THEN <<"render">>
    ELSE ExpectedEvents(k - 1) \o <<"get_play", "write", "render">>

CountOf(e, seq) == Cardinality({i \in 1..Len(seq) : seq[i] = e})

(* C15: the board is rendered once before the first guess is requested    *)
(* and once after every row write, before the next request or the end of  *)
(* the run: the events are render, get_play, write, render, ... and k     *)
(* turns make k + 1 renders.                                              *)
RenderAndGuessAlternate ==
    /\ (pc = "new") => events = <<>>
    /\ (pc \in {"while", "get_play", "return", "done"})
          => events = ExpectedEvents(turns)
    /\ (pc \in {"turn", "panic"})
          => events = Append(ExpectedEvents(turns), "get_play")
    /\ renders = CountOf("render", events)
    /\ requests = CountOf("get_play", events)
    /\ (pc \in {"return", "done"}) => renders = turns + 1

(* a returned run of two turns with its three renders *)
RunOfTwoTurnsRendered ==
    /\ pc = "done"
    /\ turns = 2
    /\ renders = 3

(* C16: right after Game::new(word, n, player) attempts_left is n and the *)
(* board has exactly n rows, each Empty with the target's length as width.*)
NewGameIsFreshBoard ==
    (pc = "new" /\ runs = 0) =>
        /\ attempts_left = number_of_attempts
        /\ Len(board) = number_of_attempts
        /\ \A i \in 1..Len(board) : board[i] = Empty(Len(word))

EvaluationStep ==
    (pc \in {"diff_call", "diff_done"}) =>
        /\ board' = board
        /\ attempts_left' = attempts_left
        /\ number_of_attempts' = number_of_attempts
        /\ word' = word

ZeroAttemptsGame ==
    (number_of_attempts = 0) =>
        /\ board = <<>>
        /\ requests = 0
        /\ turns = 0
        /\ pc \in {"new", "while", "return", "done"}
        /\ (pc \in {"return", "done"}) => events = <<"render">>
        /\ (pc = "done") => (renders = 1 /\ summary.won = FALSE)

(* the run of a zero-attempt game has returned *)
ZeroAttemptsRunReturned ==
    /\ number_of_attempts = 0
    /\ pc = "done"
    /\ renders = 1

====
